---- MODULE Spec2Model ----
(***************************************************************************)
(* A model of Skeleto/core.py: the MiniFramework route and documentation   *)
(* tables, the Response family, FormBuilder, the AutoCRUD views and the    *)
(* Model mapping layer, together with the request pipeline (router,        *)
(* middleware chain, server loop) that spec.md describes.                  *)
(*                                                                         *)
(* A Python str is a sequence of code points, a bytes value a sequence of  *)
(* numbers below 256; string literals of the source are written as their   *)
(* code points with the text in a comment.                                 *)
(***************************************************************************)
EXTENDS Integers, Sequences, FiniteSets, TLC

VARIABLES
    enable_docs,   \* MiniFramework.enable_docs
    docs_format,   \* MiniFramework.docs_format
    urls,          \* MiniFramework.urls: an insertion-ordered dict, as a sequence of [key, val]
    route_docs,    \* MiniFramework.route_docs: an insertion-ordered dict
    middlewares,   \* MiniFramework.middlewares
    table,         \* the rows of the model's table in the store, in rowid order
    responses,     \* the Response objects constructed so far (the heap)
    regLog,        \* history: the registrations made, in order
    saved,         \* history: the instances saved, in order
    call,          \* the operation performed by the last step, with its arguments
    result,        \* what that operation returned (or that it raised)
    flow,          \* the request-handling flow of the server loop
    served         \* history: the requests the server loop completed

vars == <<enable_docs, docs_format, urls, route_docs, middlewares, table,
          responses, regLog, saved, call, result, flow, served>>

----------------------------------------------------------------------------
(* Bounds *)

MaxLen == 2        \* longest caller-supplied string (location, message, value)
MaxRegs == 3       \* registration calls (add_route, AutoCRUD.register)
MaxRows == 2       \* rows in the table
MaxResponses == 2  \* Response objects kept on the heap
MaxRequests == 2   \* requests the server loop serves
MaxMiddlewares == 2
MaxOps == 4        \* registrations, rows and kept responses together, in Spec

----------------------------------------------------------------------------
(* Strings and bytes *)

\* The characters callers supply: a < > & " ' and e-acute (two bytes in UTF-8).
Chars == {97, 60, 62, 38, 34, 39, 233}

RECURSIVE StrsUpTo(_)
StrsUpTo(n) ==
    IF n = 0 THEN {<<>>}
    ELSE LET shorter == StrsUpTo(n - 1)
         IN  shorter \cup {Append(s, c) : s \in shorter, c \in Chars}

Strs == StrsUpTo(MaxLen)

\* ''.join(ss): the concatenation of the strings ss[lo..hi], by halves
RECURSIVE ConcatRange(_, _, _)
ConcatRange(ss, lo, hi) ==
    IF lo > hi THEN <<>>
    ELSE IF lo = hi THEN ss[lo]
    ELSE LET mid == (lo + hi) \div 2
         IN  ConcatRange(ss, lo, mid) \o ConcatRange(ss, mid + 1, hi)

Concat(ss) == ConcatRange(ss, 1, Len(ss))

\* str.encode(): UTF-8
EncodeChar(c) ==
    IF c < 128 THEN <<c>>
    ELSE IF c < 2048 THEN <<192 + (c \div 64), 128 + (c % 64)>>
    ELSE IF c < 65536
         THEN <<224 + (c \div 4096), 128 + ((c \div 64) % 64), 128 + (c % 64)>>
    ELSE <<240 + (c \div 262144), 128 + ((c \div 4096) % 64),
           128 + ((c \div 64) % 64), 128 + (c % 64)>>

\* (a string of ASCII characters is its own encoding)
Encode(s) ==
    IF \A i \in 1..Len(s) : s[i] < 128 THEN s
    ELSE Concat([i \in 1..Len(s) |-> EncodeChar(s[i])])

\* str.replace(old, new) for a one-character old
Replace(s, old, new) ==
    Concat([i \in 1..Len(s) |-> IF s[i] = old THEN new ELSE <<s[i]>>])

\* a variant of html.escape that leaves '&' alone
EscapeNoAmp(s) ==
    Replace(Replace(Replace(Replace(s,
        60, <<38,108,116,59>>),                 \* '<' -> '&lt;'
        62, <<38,103,116,59>>),                 \* '>' -> '&gt;'
        34, <<38,113,117,111,116,59>>),         \* '"' -> '&quot;'
        39, <<38,35,120,50,55,59>>)             \* "'" -> '&#x27;'

\* html.escape(s) with quote=True: the five replacements, '&' first
Escape(s) ==
    Replace(Replace(Replace(Replace(Replace(s,
        38, <<38,97,109,112,59>>),              \* '&' -> '&amp;'
        60, <<38,108,116,59>>),                 \* '<' -> '&lt;'
        62, <<38,103,116,59>>),                 \* '>' -> '&gt;'
        34, <<38,113,117,111,116,59>>),         \* '"' -> '&quot;'
        39, <<38,35,120,50,55,59>>)             \* "'" -> '&#x27;'

\* str(n) of a non-negative integer, as an f-string renders it
RECURSIVE IntToStr(_)
IntToStr(n) ==
    IF n < 10 THEN <<48 + n>> ELSE Append(IntToStr(n \div 10), 48 + (n % 10))

----------------------------------------------------------------------------
(* Response, Redirect, Error *)

ContentType == <<67,111,110,116,101,110,116,45,84,121,112,101>>   \* 'Content-Type'
TextHtml == <<116,101,120,116,47,104,116,109,108>>                \* 'text/html'
Location == <<76,111,99,97,116,105,111,110>>                      \* 'Location'
DefaultHeaders == << <<ContentType, TextHtml>> >>

Str(s) == [t |-> "str", v |-> s]
Bytes(b) == [t |-> "bytes", v |-> b]

\* Response.__init__(body, status=200, headers=None); an optional argument is
\* a sequence of at most one element, headers is a list of pairs (None and
\* the empty list are both falsy)
ResponseInit(body, status, headers) ==
    [body    |-> IF body.t = "str" THEN Encode(body.v) ELSE body.v,
     status  |-> IF status = <<>> THEN 200 ELSE status[1],
     headers |-> IF headers = <<>> THEN DefaultHeaders ELSE headers]

\* a variant of Redirect that does not pass 302
RedirectNoStatus(location) ==
    ResponseInit(Str(<<>>), <<>>, << <<Location, location>> >>)

\* Redirect.__init__(location)
RedirectInit(location) ==
    ResponseInit(Str(<<>>), <<302>>, << <<Location, location>> >>)

ErrorStatus(status) == IF status = <<>> THEN 500 ELSE status[1]

\* a variant of Error that does not pass its status on
ErrorNoStatus(message, status) ==
    ResponseInit(
        Str(Concat(<< <<60,104,49,62,69,114,114,111,114,32>>,
                      IntToStr(ErrorStatus(status)),
                      <<60,47,104,49,62,60,112,62>>,
                      Escape(message),
                      <<60,47,112,62>> >>)),
        <<>>, <<>>)

\* Error.__init__(message, status=500)
ErrorInit(message, status) ==
    ResponseInit(
        Str(Concat(<< <<60,104,49,62,69,114,114,111,114,32>>,     \* '<h1>Error '
                      IntToStr(ErrorStatus(status)),
                      <<60,47,104,49,62,60,112,62>>,              \* '</h1><p>'
                      Escape(message),
                      <<60,47,112,62>> >>)),                      \* '</p>'
        <<ErrorStatus(status)>>, <<>>)

----------------------------------------------------------------------------
(* Python dicts: insertion-ordered, as sequences of [key, val] *)

DictKeys(d) == [i \in 1..Len(d) |-> d[i].key]
DictHas(d, k) == \E i \in 1..Len(d) : d[i].key = k
DictGet(d, k) == d[CHOOSE i \in 1..Len(d) : d[i].key = k].val

\* a variant of d[k] = v that moves an existing key to the end
DictSetMoveToEnd(d, k, v) ==
    Append(SelectSeq(d, LAMBDA e : e.key # k), [key |-> k, val |-> v])

\* d[k] = v: a new key goes to the end, an existing key keeps its position
DictSet(d, k, v) ==
    IF DictHas(d, k)
    THEN [i \in 1..Len(d) |-> IF d[i].key = k THEN [key |-> k, val |-> v] ELSE d[i]]
    ELSE Append(d, [key |-> k, val |-> v])

----------------------------------------------------------------------------
(* MiniFramework *)

DocsPath == <<47,100,111,99,115>>             \* '/docs'
ListSuffix == <<47,108,105,115,116>>          \* '/list'
AddSuffix == <<47,97,100,100>>                \* '/add'

\* handlers are function objects: the bound method docs_view, the closures
\* list_view and add_view of one AutoCRUD.register(app, path, ...) call, and
\* the functions callers write
DocsViewHandler == [kind |-> "docs_view", arg |-> <<>>]
ListViewHandler(path) == [kind |-> "list_view", arg |-> path]
AddViewHandler(path) == [kind |-> "add_view", arg |-> path]
UserHandler(n) == [kind |-> "user", arg |-> <<n>>]

\* MiniFramework.__init__: urls after construction
InitUrls(enabled) ==
    IF enabled THEN <<[key |-> DocsPath, val |-> DocsViewHandler]>> ELSE <<>>

\* a variant of add_route that documents the route whatever enable_docs is
AddRouteDocsAlways(docs, enabled, path, doc) == DictSet(docs, path, doc)

\* add_route: the documentation table after add_route(path, func, doc)
AddRouteDocs(docs, enabled, path, doc) ==
    IF enabled THEN DictSet(docs, path, doc) ELSE docs

ModelName == <<80>>                           \* 'P', model_class.__name__

\* AutoCRUD.register: the documentation table after the registration
RegisterDocs(docs, enabled, list_path, add_path) ==
    IF enabled
    THEN DictSet(DictSet(docs,
             list_path, <<76,105,115,116,32,97,108,108,32>> \o ModelName),  \* 'List all '
             add_path, <<65,100,100,32,110,101,119,32>> \o ModelName)       \* 'Add new '
    ELSE docs

\* AutoCRUD.register: the route table after the registration
RegisterUrls(routes, path) ==
    DictSet(DictSet(routes,
        path \o ListSuffix, ListViewHandler(path)),
        path \o AddSuffix, AddViewHandler(path))

\* a variant in which the objects share one status attribute
ConstructShared(heap, r) ==
    Append([i \in 1..Len(heap) |-> [heap[i] EXCEPT !.status = r.status]], r)

\* the Response objects the program holds after constructing r: the new
\* object gets its own status, body and headers
Construct(heap, r) == Append(heap, r)

\* a caller keeps the responses it is handed while it holds fewer than cap
Keep(heap, r, cap) == IF Len(heap) < cap THEN Construct(heap, r) ELSE heap

\* markdown.markdown(content) is an external renderer: it returns some string
MarkdownOutputs == {<<>>, <<97>>, <<60,112,62>>}

\* docs_view, html format
DocsHtml(docs) ==
    Concat(<< <<60,104,49,62,65,80,73,32,68,111,99,117,109,101,110,116,97,116,105,
                111,110,60,47,104,49,62,60,117,108,62>>,  \* '<h1>API Documentation</h1><ul>'
              Concat([i \in 1..Len(docs) |->
                  Concat(<< <<60,108,105,62,60,98,62>>,           \* '<li><b>'
                            Escape(docs[i].key),
                            <<60,47,98,62,58,32>>,                \* '</b>: '
                            Escape(docs[i].val),
                            <<60,47,108,105,62>> >>)]),           \* '</li>'
              <<60,47,117,108,62>> >>)                            \* '</ul>'

----------------------------------------------------------------------------
(* What every specification starts from and what each step records *)

NoCall == [op |-> "none", args |-> <<>>]
NoResult == [kind |-> "none", val |-> <<>>]
Returned(r) == [kind |-> "response", val |-> r]
Raised(e) == [kind |-> "raise", val |-> e]
Value(v) == [kind |-> "value", val |-> v]

NoCtx == [path |-> <<>>, method |-> <<>>, form |-> <<>>]

\* the server loop before run(): nothing accepted yet
ConfigFlow ==
    [pc |-> "config", ctx |-> NoCtx, cursor |-> 1, mws |-> <<>>, routed |-> FALSE,
     invoked |-> <<>>, out |-> NoResult]

Statuses == {<<>>, <<500>>, <<404>>, <<200>>}

----------------------------------------------------------------------------
(* Python values, ModelMeta and Model *)

None == [t |-> "none", v |-> <<>>]

\* truthiness of None and of a str
Truthy(x) == x.t # "none" /\ x.v # <<>>

\* d.get(k, default)
DictGetOr(d, k, default) == IF DictHas(d, k) THEN DictGet(d, k) ELSE default

\* str.upper() on ASCII letters
Upper(s) == [i \in 1..Len(s) |-> IF s[i] >= 97 /\ s[i] <= 122 THEN s[i] - 32 ELSE s[i]]

\* sub in s
Contains(s, sub) ==
    \E i \in 0..(Len(s) - Len(sub)) : SubSeq(s, i + 1, i + Len(sub)) = sub

NameField == <<110,97,109,101>>               \* 'name'
AgeField == <<97,103,101>>                    \* 'age'
SelfName == <<115,101,108,102>>               \* 'self'

\* class P(Model): table = None; name = ("TEXT", ""); age = ("INTEGER", "")
ClassDict ==
    << [key |-> <<116,97,98,108,101>>, val |-> None],                  \* table
       [key |-> NameField,
        val |-> [t |-> "tuple", v |-> << <<84,69,88,84>>, <<>> >>]],   \* 'TEXT'
       [key |-> AgeField,
        val |-> [t |-> "tuple",
                 v |-> << <<73,78,84,69,71,69,82>>, <<>> >>]] >>       \* 'INTEGER'

\* ModelMeta.__new__: _fields holds the class attributes that are tuples
ModelMeta(dct) == SelectSeq(dct, LAMBDA e : e.val.t = "tuple")

Fields == ModelMeta(ClassDict)
FieldNames == DictKeys(Fields)

\* Model.__init__(self, **kwargs): a keyword named 'self' collides with the
\* positional parameter and the call raises TypeError; otherwise every field
\* is set from kwargs, None when kwargs has no such key
ModelInit(kwargs) ==
    IF DictHas(kwargs, SelfName)
    THEN Raised("TypeError")
    ELSE Value([i \in 1..Len(Fields) |->
                   [key |-> Fields[i].key,
                    val |-> DictGetOr(kwargs, Fields[i].key, None)]])

\* Model.save: INSERT INTO p (name, age) VALUES (?, ?) adds one row holding
\* the instance's field values, after the rows already there; the table is
\* the one create_table made, its columns are the fields
Save(rows, obj) ==
    Append(rows, [i \in 1..Len(Fields) |->
                     [key |-> Fields[i].key, val |-> DictGet(obj, Fields[i].key)]])

\* Model.all: SELECT * FROM p, each row through cls(**dict(row))
All(rows) == [i \in 1..Len(rows) |-> ModelInit(rows[i]).val]

\* the SQL comparison column = ?: never true of NULL
SqlEq(x, y) == x.t # "none" /\ y.t # "none" /\ x = y

\* Model.filter(**kwargs): SELECT * FROM p WHERE k1=? AND k2=? ...; without
\* conditions the statement ends in WHERE and the store rejects it, as it
\* rejects a condition on a column the table does not have
Filter(rows, kwargs) ==
    IF kwargs = <<>> \/ \E i \in 1..Len(kwargs) : ~DictHas(Fields, kwargs[i].key)
    THEN Raised("OperationalError")
    ELSE LET match(row) ==
                 \A i \in 1..Len(kwargs) :
                     SqlEq(DictGet(row, kwargs[i].key), kwargs[i].val)
             hits == SelectSeq(rows, match)
         IN  Value([i \in 1..Len(hits) |-> ModelInit(hits[i]).val])

----------------------------------------------------------------------------
(* FormBuilder *)

FieldRequired == <<70,105,101,108,100,32,114,101,113,117,105,114,101,100>>  \* 'Field required'

\* str(x) of a str or None
PyStr(x) == IF x.t = "none" THEN <<78,111,110,101>> ELSE x.v      \* 'None'

\* FormBuilder.validate
Validate(form) ==
    LET missing == SelectSeq(Fields, LAMBDA f : ~Truthy(DictGetOr(form, f.key, None)))
    IN  [i \in 1..Len(missing) |-> [key |-> missing[i].key, val |-> Str(FieldRequired)]]

\* FormBuilder.build(model_class, values, errors); a missing or empty
\* mapping argument stands for {}
Build(values, errors) ==
    LET line(f) ==
            LET input_type ==
                    IF Contains(Upper(f.val.v[1]), <<84,69,88,84>>)           \* 'TEXT'
                    THEN <<116,101,120,116>>                                  \* 'text'
                    ELSE <<110,117,109,98,101,114>>                           \* 'number'
                value == Escape(PyStr(DictGetOr(values, f.key, Str(<<>>))))
                error ==
                    IF DictHas(errors, f.key)
                    THEN Concat(<< <<60,115,112,97,110,32,115,116,121,108,101,61,39,99,
                                     111,108,111,114,58,114,101,100,39,62>>,
                                                        \* "<span style='color:red'>"
                                   Escape(PyStr(DictGetOr(errors, f.key, Str(<<>>)))),
                                   <<60,47,115,112,97,110,62>> >>)            \* '</span>'
                    ELSE <<>>
            IN  Concat(<< f.key,
                          <<58,32,60,105,110,112,117,116,32,110,97,109,101,61,39>>,
                                                        \* ": <input name='"
                          f.key,
                          <<39,32,116,121,112,101,61,39>>,                    \* "' type='"
                          input_type,
                          <<39,32,118,97,108,117,101,61,39>>,                 \* "' value='"
                          value,
                          <<39,62,32>>,                                       \* "'> "
                          error,
                          <<60,98,114,62,10>> >>)                             \* '<br>\n'
    IN  Concat(<< <<60,102,111,114,109,32,109,101,116,104,111,100,61,39,112,111,115,
                    116,39,62,10>>,                     \* "<form method='post'>\n"
                  Concat([i \in 1..Len(Fields) |-> line(Fields[i])]),
                  <<60,105,110,112,117,116,32,116,121,112,101,61,39,115,117,98,109,105,
                    116,39,62,10,60,47,102,111,114,109,62>> >>)
                                                        \* "<input type='submit'>\n</form>"

----------------------------------------------------------------------------
(* The AutoCRUD views *)

\* repr() of a str over the characters of the model (no backslash, no
\* control character) and of None
Repr(x) ==
    IF x.t = "none" THEN <<78,111,110,101>>                                   \* 'None'
    ELSE IF 39 \in {x.v[i] : i \in 1..Len(x.v)} /\ 34 \notin {x.v[i] : i \in 1..Len(x.v)}
         THEN <<34>> \o x.v \o <<34>>
    ELSE <<39>> \o Replace(x.v, 39, <<92,39>>) \o <<39>>

\* str(item.__dict__)
ReprDict(obj) ==
    Concat(<< <<123>>,                                                        \* '{'
              Concat([i \in 1..Len(obj) |->
                  Concat(<< IF i = 1 THEN <<>> ELSE <<44,32>>,                \* ', '
                            Repr(Str(obj[i].key)),
                            <<58,32>>,                                        \* ': '
                            Repr(obj[i].val) >>)]),
              <<125>> >>)                                                     \* '}'

\* list_view(ctx): what it returns for the rows of ctx['db']
ListViewResult(rows) ==
    LET items == All(rows)
    IN  Returned(ResponseInit(
            Str(Concat(<< <<60,117,108,62>>,                                  \* '<ul>'
                          Concat([i \in 1..Len(items) |->
                              Concat(<< <<60,108,105,62>>,                    \* '<li>'
                                        ReprDict(items[i]),
                                        <<60,47,108,105,62>> >>)]),           \* '</li>'
                          <<60,47,117,108,62>> >>)),                          \* '</ul>'
            <<>>, <<>>))

Post == <<80,79,83,84>>                                                       \* 'POST'

\* add_view(ctx): [result, rows], what it returns or raises and the rows of
\* ctx['db'] afterwards; list_path is that of the register call
AddViewResult(list_path, method, form, rows) ==
    IF Upper(method) = Post
    THEN LET errors == Validate(form)
             obj == ModelInit(form)
         IN  IF errors = <<>>
             THEN IF obj.kind = "raise"
                  THEN [result |-> obj, rows |-> rows]
                  ELSE [result |-> Returned(RedirectInit(list_path)),
                        rows |-> Save(rows, obj.val)]
             ELSE [result |-> Returned(ResponseInit(Str(Build(form, errors)), <<>>, <<>>)),
                   rows |-> rows]
    ELSE [result |-> Returned(ResponseInit(Str(Build(<<>>, <<>>)), <<>>, <<>>)),
          rows |-> rows]

----------------------------------------------------------------------------
(* The Response family as functions of their arguments *)

\* the calls a caller can make: the arguments are drawn here, the step applies
\* the constructor to them
RespCalls ==
    {[op |-> "Redirect", args |-> <<location>>] : location \in Strs}
    \cup {[op |-> "Error", args |-> <<message, status>>] :
             message \in Strs, status \in Statuses}
    \cup {[op |-> "Response", args |-> <<body, status, headers>>] :
             body \in {Str(s) : s \in Strs} \cup {Bytes(<<>>), Bytes(<<255>>)},
             status \in Statuses,
             headers \in {<<>>, << <<Location, <<97>>>> >>}}

InitResp ==
    /\ enable_docs = FALSE
    /\ docs_format = "html"
    /\ urls = <<>>
    /\ route_docs = <<>>
    /\ middlewares = <<>>
    /\ table = <<>>
    /\ responses = <<>>
    /\ regLog = <<>>
    /\ saved = <<>>
    /\ call \in RespCalls
    /\ result = NoResult
    /\ flow = ConfigFlow
    /\ served = <<>>

MakeRedirect ==
    /\ call.op = "Redirect"
    /\ result.kind = "none"
    /\ result' = Returned(RedirectInit(call.args[1]))
    /\ UNCHANGED <<enable_docs, docs_format, urls, route_docs, middlewares,
                   table, responses, regLog, saved, call, flow, served>>

MakeError ==
    /\ call.op = "Error"
    /\ result.kind = "none"
    /\ result' = Returned(ErrorInit(call.args[1], call.args[2]))
    /\ UNCHANGED <<enable_docs, docs_format, urls, route_docs, middlewares,
                   table, responses, regLog, saved, call, flow, served>>

MakeResponse ==
    /\ call.op = "Response"
    /\ result.kind = "none"
    /\ result' = Returned(ResponseInit(call.args[1], call.args[2], call.args[3]))
    /\ UNCHANGED <<enable_docs, docs_format, urls, route_docs, middlewares,
                   table, responses, regLog, saved, call, flow, served>>

NextResp == MakeRedirect \/ MakeError \/ MakeResponse

SpecResp == InitResp /\ [][NextResp]_vars

----------------------------------------------------------------------------
(* Reading a body back: UTF-8 decoding and HTML unescaping *)

\* bytes.decode(): UTF-8; a character starts at every byte that is not a
\* continuation byte (128..191)
DecodeAt(b, i) ==
    IF b[i] < 128 THEN b[i]
    ELSE IF b[i] < 224 THEN (b[i] - 192) * 64 + (b[i + 1] - 128)
    ELSE IF b[i] < 240
         THEN (b[i] - 224) * 4096 + (b[i + 1] - 128) * 64 + (b[i + 2] - 128)
    ELSE (b[i] - 240) * 262144 + (b[i + 1] - 128) * 4096 + (b[i + 2] - 128) * 64
         + (b[i + 3] - 128)

Decode(b) ==
    LET starts == SelectSeq([i \in 1..Len(b) |-> i],
                            LAMBDA i : b[i] < 128 \/ b[i] >= 192)
    IN  [k \in 1..Len(starts) |-> DecodeAt(b, starts[k])]

StartsWith(s, p) == Len(s) >= Len(p) /\ SubSeq(s, 1, Len(p)) = p
EndsWith(s, p) == Len(s) >= Len(p) /\ SubSeq(s, Len(s) - Len(p) + 1, Len(s)) = p
Drop(s, n) == SubSeq(s, n + 1, Len(s))

\* the character references html.escape produces, with the character each stands for
Entities ==
    { <<<<38,97,109,112,59>>, 38>>,            \* &amp;
      <<<<38,108,116,59>>, 60>>,               \* &lt;
      <<<<38,103,116,59>>, 62>>,               \* &gt;
      <<<<38,113,117,111,116,59>>, 34>>,       \* &quot;
      <<<<38,35,120,50,55,59>>, 39>> }         \* &#x27;

\* what a browser reads from escaped text: every character reference becomes
\* its character, anything else stands for itself
RECURSIVE Unescape(_)
Unescape(e) ==
    IF e = <<>> THEN <<>>
    ELSE IF \E p \in Entities : StartsWith(e, p[1])
         THEN LET p == CHOOSE q \in Entities : StartsWith(e, q[1])
              IN  <<p[2]>> \o Unescape(Drop(e, Len(p[1])))
    ELSE <<e[1]>> \o Unescape(Drop(e, 1))

\* no markup character is left in e: no '<', no '>', and every '&' opens a
\* character reference
NoMarkup(e) ==
    \A i \in 1..Len(e) :
        /\ e[i] \notin {60, 62}
        /\ e[i] = 38 => \E p \in Entities : StartsWith(Drop(e, i - 1), p[1])

----------------------------------------------------------------------------
(* C1, C2 *)

\* C1: for every location L, Redirect(L) has status 302, an empty body and a
\* Location header whose value is exactly L (and no other Location value).
C1_RedirectShape ==
    (call.op = "Redirect" /\ result.kind # "none") =>
        /\ result.kind = "response"
        /\ result.val.status = 302
        /\ result.val.body = <<>>
        /\ \E i \in 1..Len(result.val.headers) :
               result.val.headers[i] = <<Location, call.args[1]>>
        /\ \A i \in 1..Len(result.val.headers) :
               result.val.headers[i][1] = Location
                   => result.val.headers[i][2] = call.args[1]

C1_Witness ==
    /\ call.op = "Redirect"
    /\ Len(call.args[1]) = MaxLen
    /\ result.kind = "response"
    /\ result.val.status = 302

\* C2: for every message M and status S, Error(M, S) has status S (500 when
\* S is not given) and its body, read as UTF-8 text, is '<h1>Error S</h1><p>'
\* followed by a rendering of M and '</p>', where the rendering carries no
\* '<' or '>', every '&' in it opens a character reference, and unescaping
\* it gives back M.
C2_ErrorEscaped ==
    (call.op = "Error" /\ result.kind # "none") =>
        LET M == call.args[1]
            S == IF call.args[2] = <<>> THEN 500 ELSE call.args[2][1]
            text == Decode(result.val.body)
            pre == <<60,104,49,62,69,114,114,111,114,32>> \o IntToStr(S)
                   \o <<60,47,104,49,62,60,112,62>>
            post == <<60,47,112,62>>
            mid == SubSeq(text, Len(pre) + 1, Len(text) - Len(post))
        IN  /\ result.kind = "response"
            /\ result.val.status = S
            /\ StartsWith(text, pre)
            /\ EndsWith(Drop(text, Len(pre)), post)
            /\ NoMarkup(mid)
            /\ Unescape(mid) = M

C2_Witness ==
    /\ call.op = "Error"
    /\ call.args[1] = <<38, 60>>
    /\ call.args[2] = <<>>
    /\ result.kind = "response"
    /\ result.val.status = 500
    /\ Decode(result.val.body)
         = <<60,104,49,62,69,114,114,111,114,32,53,48,48,60,47,104,49,62,60,112,62,
             38,97,109,112,59,38,108,116,59,60,47,112,62>>
         \* '<h1>Error 500</h1><p>&amp;&lt;</p>'

----------------------------------------------------------------------------
(* Configuration: construction, add_route, AutoCRUD.register, docs_view *)

RoutePaths ==
    { DocsPath,
      <<47,112,47,108,105,115,116>>,          \* '/p/list'
      <<47,46,42>> }                          \* '/.*'
CrudPaths == { <<47,112>> }                   \* '/p'
UserHandlers == {UserHandler(1), UserHandler(2)}
DocStrings == {<<>>, <<60,100>>}              \* '' and '<d'

\* MiniFramework(enable_docs, docs_format)
InitApp ==
    /\ enable_docs \in BOOLEAN
    /\ docs_format \in {"html", "markdown"}
    /\ urls = InitUrls(enable_docs)
    /\ route_docs = <<>>
    /\ middlewares = <<>>
    /\ table = <<>>
    /\ responses = <<>>
    /\ regLog = [i \in 1..Len(urls) |->
                    [path |-> urls[i].key, func |-> urls[i].val, by |-> "init"]]
    /\ saved = <<>>
    /\ call = NoCall
    /\ result = NoResult
    /\ flow = ConfigFlow
    /\ served = <<>>

Calls == Len(SelectSeq(regLog, LAMBDA e : e.by \in {"add_route", "register"}))

AddRoute(path, func, doc) ==
    /\ Calls < MaxRegs
    /\ urls' = DictSet(urls, path, func)
    /\ route_docs' = AddRouteDocs(route_docs, enable_docs, path, doc)
    /\ regLog' = Append(regLog, [path |-> path, func |-> func, by |-> "add_route"])
    /\ call' = [op |-> "add_route", args |-> <<path, func, doc>>]
    /\ result' = NoResult
    /\ UNCHANGED <<enable_docs, docs_format, middlewares, table, responses,
                   saved, flow, served>>

Register(path) ==
    /\ Calls < MaxRegs
    /\ urls' = RegisterUrls(urls, path)
    /\ route_docs' = RegisterDocs(route_docs, enable_docs,
                                  path \o ListSuffix, path \o AddSuffix)
    /\ regLog' = regLog \o
           << [path |-> path \o ListSuffix, func |-> ListViewHandler(path),
               by |-> "register"],
              [path |-> path \o AddSuffix, func |-> AddViewHandler(path),
               by |-> "register"] >>
    /\ call' = [op |-> "register", args |-> <<path>>]
    /\ result' = NoResult
    /\ UNCHANGED <<enable_docs, docs_format, middlewares, table, responses,
                   saved, flow, served>>

DocsView(cap) ==
    \E html_doc \in IF docs_format = "markdown" THEN MarkdownOutputs
                    ELSE {DocsHtml(route_docs)} :
        \E r \in {ResponseInit(Str(html_doc), <<>>, <<>>)} :
            /\ call' = [op |-> "docs_view", args |-> <<>>]
            /\ result' = Returned(r)
            /\ responses' = Keep(responses, r, cap)
            /\ UNCHANGED <<enable_docs, docs_format, urls, route_docs, middlewares,
                           table, regLog, saved, flow, served>>

AddRouteAny ==
    \E path \in RoutePaths, func \in UserHandlers, doc \in DocStrings :
        AddRoute(path, func, doc)

RegisterAny == \E path \in CrudPaths : Register(path)

DocsViewDropped == DocsView(0)

NextRoutes == AddRouteAny \/ RegisterAny \/ DocsViewDropped

SpecRoutes == InitApp /\ [][NextRoutes]_vars

----------------------------------------------------------------------------
(* C4, C9 *)

Range(s) == {s[i] : i \in 1..Len(s)}

\* the patterns of a registration history, each once, in the order of its
\* first registration
RECURSIVE FirstOrder(_)
FirstOrder(log) ==
    IF log = <<>> THEN <<>>
    ELSE LET rest == FirstOrder(SubSeq(log, 1, Len(log) - 1))
             p == log[Len(log)].path
         IN  IF p \in Range(rest) THEN rest ELSE Append(rest, p)

\* the handler of the latest registration of pattern p
LastHandler(log, p) ==
    LET last == CHOOSE i \in 1..Len(log) :
                    /\ log[i].path = p
                    /\ \A j \in (i + 1)..Len(log) : log[j].path # p
    IN  log[last].func

\* C4: the route table lists the registered patterns in the order in which
\* each was first registered ('/docs' of the constructor included), each
\* once, and maps each to the handler most recently registered for it.
C4_RouteTableOrder ==
    /\ DictKeys(urls) = FirstOrder(regLog)
    /\ \A i \in 1..Len(urls) : urls[i].val = LastHandler(regLog, urls[i].key)

\* a pattern registered, then another pattern, then the first one again with
\* a different handler
C4_Witness ==
    \E i, j, k \in 1..Len(regLog) :
        /\ i < j /\ j < k
        /\ regLog[i].path = regLog[k].path
        /\ regLog[j].path # regLog[i].path
        /\ regLog[i].func # regLog[k].func
        /\ \A m \in 1..Len(regLog) : m < j => regLog[m].path # regLog[j].path
        /\ Len(urls) >= 2
        /\ urls[Len(urls)].key = regLog[j].path

CallerRegistered(p) ==
    \E i \in 1..Len(regLog) : regLog[i].path = p /\ regLog[i].by # "init"

\* C9: with enable_docs, every documented pattern is routed and every routed
\* pattern is documented, except '/docs' as long as only the constructor
\* registered it; without enable_docs, nothing is documented and '/docs' is
\* routed only if the caller registered it.
C9_DocsAgreeWithRoutes ==
    /\ enable_docs =>
          /\ \A i \in 1..Len(route_docs) : DictHas(urls, route_docs[i].key)
          /\ \A i \in 1..Len(urls) :
                 \/ DictHas(route_docs, urls[i].key)
                 \/ urls[i].key = DocsPath /\ ~CallerRegistered(DocsPath)
    /\ ~enable_docs =>
          /\ route_docs = <<>>
          /\ DictHas(urls, DocsPath) => CallerRegistered(DocsPath)

\* documentation on: an undocumented '/docs' next to documented routes of
\* both kinds
C9_Witness ==
    /\ enable_docs
    /\ DictHas(urls, DocsPath) /\ ~DictHas(route_docs, DocsPath)
    /\ \E i \in 1..Len(regLog) : regLog[i].by = "add_route"
    /\ \E i \in 1..Len(regLog) : regLog[i].by = "register"
    /\ Len(route_docs) = 3

----------------------------------------------------------------------------
(* The views and the Model operations on a store *)

OptEntry(k, vals) == {<<>>} \cup {<<[key |-> k, val |-> v]>> : v \in vals}

Methods == {Post, <<112,111,115,116>>, <<71,69,84>>}      \* 'POST', 'post', 'GET'
FormValues == {Str(<<>>), Str(<<60>>)}                    \* '' and '<'

\* ctx['form']: any of the fields and a key 'self' may be present
Forms ==
    {n \o a \o x : n \in OptEntry(NameField, FormValues),
                   a \in OptEntry(AgeField, {Str(<<60>>)}),
                   x \in OptEntry(SelfName, {Str(<<97>>)})}

\* keyword arguments of P(...), absent ones left out
SaveKwargs ==
    {n \o a : n \in OptEntry(NameField, {Str(<<97>>)}),
              a \in OptEntry(AgeField, {Str(<<97>>)})}

\* keyword arguments of P.filter(db, ...)
FilterKwargs ==
    {n \o a : n \in OptEntry(NameField, {None, Str(<<97>>)}),
              a \in OptEntry(AgeField, {Str(<<97>>)})}

\* a framework on which AutoCRUD.register(app, '/p', P) has been called and a
\* store on which P.create_table has been called
InitCrud ==
    /\ enable_docs = TRUE
    /\ docs_format = "html"
    /\ urls = RegisterUrls(InitUrls(TRUE), <<47,112>>)
    /\ route_docs = RegisterDocs(<<>>, TRUE, <<47,112>> \o ListSuffix,
                                 <<47,112>> \o AddSuffix)
    /\ middlewares = <<>>
    /\ table = <<>>
    /\ responses = <<>>
    /\ regLog = [i \in 1..Len(urls) |->
                    [path |-> urls[i].key, func |-> urls[i].val,
                     by |-> IF i = 1 THEN "init" ELSE "register"]]
    /\ saved = <<>>
    /\ call = NoCall
    /\ result = NoResult
    /\ flow = ConfigFlow
    /\ served = <<>>

Registered(h) == \E i \in 1..Len(urls) : urls[i].val = h

ListView(cap, path) ==
    /\ Registered(ListViewHandler(path))
    /\ \E out \in {ListViewResult(table)} :
           /\ result' = out
           /\ responses' = Keep(responses, out.val, cap)
    /\ call' = [op |-> "list_view", args |-> <<path, table>>]
    /\ UNCHANGED <<enable_docs, docs_format, urls, route_docs, middlewares,
                   table, regLog, saved, flow, served>>

AddView(cap, path, method, form) ==
    \E out \in {AddViewResult(path \o ListSuffix, method, form, table)} :
        /\ Registered(AddViewHandler(path))
        /\ Len(out.rows) <= MaxRows
        /\ call' = [op |-> "add_view", args |-> <<path, method, form, table>>]
        /\ result' = out.result
        /\ table' = out.rows
        /\ saved' = IF Len(out.rows) > Len(table)
                    THEN Append(saved, ModelInit(form).val) ELSE saved
        /\ responses' = IF out.result.kind = "response"
                        THEN Keep(responses, out.result.val, cap) ELSE responses
        /\ UNCHANGED <<enable_docs, docs_format, urls, route_docs, middlewares,
                       regLog, flow, served>>

\* P(**kwargs).save(db)
ModelSave(kwargs) ==
    LET obj == ModelInit(kwargs)
    IN  /\ Len(table) < MaxRows
        /\ call' = [op |-> "save", args |-> <<kwargs, table>>]
        /\ result' = IF obj.kind = "raise" THEN obj ELSE Value(None)
        /\ table' = IF obj.kind = "raise" THEN table ELSE Save(table, obj.val)
        /\ saved' = IF obj.kind = "raise" THEN saved ELSE Append(saved, obj.val)
        /\ UNCHANGED <<enable_docs, docs_format, urls, route_docs, middlewares,
                       responses, regLog, flow, served>>

\* P.all(db)
ModelAll ==
    /\ call' = [op |-> "all", args |-> <<table>>]
    /\ result' = Value(All(table))
    /\ UNCHANGED <<enable_docs, docs_format, urls, route_docs, middlewares,
                   table, responses, regLog, saved, flow, served>>

\* P.filter(db, **kwargs)
ModelFilter(kwargs) ==
    /\ call' = [op |-> "filter", args |-> <<kwargs, table>>]
    /\ result' = Filter(table, kwargs)
    /\ UNCHANGED <<enable_docs, docs_format, urls, route_docs, middlewares,
                   table, responses, regLog, saved, flow, served>>

ListViewDropped == \E path \in CrudPaths : ListView(0, path)
AddViewDropped ==
    \E path \in CrudPaths, method \in Methods, form \in Forms :
        AddView(0, path, method, form)
ModelSaveAny == \E kwargs \in SaveKwargs : ModelSave(kwargs)
ModelFilterAny == \E kwargs \in FilterKwargs : ModelFilter(kwargs)

NextCrud ==
    ListViewDropped \/ AddViewDropped \/ ModelSaveAny \/ ModelAll \/ ModelFilterAny

SpecCrud == InitCrud /\ [][NextCrud]_vars

----------------------------------------------------------------------------
(* C8 *)

\* where sub occurs in s (the offsets before its first character)
Occurrences(s, sub) ==
    {k \in 0..(Len(s) - Len(sub)) : SubSeq(s, k + 1, k + Len(sub)) = sub}

RECURSIVE Split(_, _)
\* s.split(sep)
Split(s, sep) ==
    LET at == Occurrences(s, sep)
    IN  IF at = {} THEN <<s>>
        ELSE LET i == CHOOSE k \in at : \A m \in at : k <= m
             IN  <<SubSeq(s, 1, i)>> \o Split(Drop(s, i + Len(sep)), sep)

IsPost(method) == Upper(method) = Post
FieldGiven(form, f) == DictHas(form, f) /\ DictGet(form, f).v # <<>>

\* the body shows the form: one line per field, in field order, naming the
\* field, and the line of a field says 'Field required' exactly for the
\* fields in flagged
CarriesForm(body, flagged) ==
    LET lines == Split(Decode(body), <<60,98,114,62,10>>)                    \* '<br>\n'
    IN  /\ Len(lines) = Len(FieldNames) + 1
        /\ \A i \in 1..Len(FieldNames) :
               /\ Contains(lines[i], <<110,97,109,101,61,39>> \o FieldNames[i] \o <<39>>)
                                                                             \* "name='...'"
               /\ Contains(lines[i], FieldRequired) <=> FieldNames[i] \in flagged

\* C8: a call of the add view inserts exactly one row and answers with a
\* Redirect to '<path>/list' when the method is POST (in any case) and every
\* field has a non-empty value in the form; in every other case it leaves the
\* store as it was and answers 200 with the form, flagging exactly the
\* missing or empty fields of a POST.
C8_AddViewInsertsIffValidPost ==
    call.op = "add_view" =>
        LET path == call.args[1]
            method == call.args[2]
            form == call.args[3]
            before == call.args[4]
            missing == {f \in Range(FieldNames) : ~FieldGiven(form, f)}
        IN  IF IsPost(method) /\ missing = {}
            THEN /\ Len(table) = Len(before) + 1
                 /\ SubSeq(table, 1, Len(before)) = before
                 /\ result.kind = "response"
                 /\ result.val = RedirectInit(path \o ListSuffix)
            ELSE /\ table = before
                 /\ result.kind = "response"
                 /\ result.val.status = 200
                 /\ CarriesForm(result.val.body, IF IsPost(method) THEN missing ELSE {})

\* a POST whose form gives every field a value and also has a key 'self':
\* Model.__init__ cannot take it, the view raises and nothing is stored
C8_FailingCall ==
    /\ call.op = "add_view"
    /\ IsPost(call.args[2])
    /\ \A f \in Range(FieldNames) : FieldGiven(call.args[3], f)
    /\ result.kind = "raise" /\ result.val = "TypeError"
    /\ table = call.args[4]

----------------------------------------------------------------------------
(* C10 *)

\* the objects among objs whose field k is v for every condition k=v
Matching(objs, kwargs) ==
    SelectSeq(objs, LAMBDA o :
        \A i \in 1..Len(kwargs) : DictGet(o, kwargs[i].key) = kwargs[i].val)

\* C10: M.all returns one object per save, in the order of the saves, with
\* the field values of the saved instance; a save adds one row and leaves
\* the rows before it as they were; M.filter with conditions k=v returns the
\* objects of M.all whose field k equals v for every condition.
C10_SaveAllFilter ==
    /\ All(table) = saved
    /\ call.op = "all" => result.val = saved
    /\ (call.op = "save" /\ result.kind = "value") =>
           /\ Len(table) = Len(call.args[2]) + 1
           /\ SubSeq(table, 1, Len(call.args[2])) = call.args[2]
    /\ (call.op = "filter" /\ call.args[1] # <<>>) =>
           /\ result.kind = "value"
           /\ result.val = Matching(All(table), call.args[1])

\* an object whose name is None is stored, and filter(name=None) finds
\* nothing
C10_FailingCall ==
    /\ call.op = "filter"
    /\ \E i \in 1..Len(call.args[1]) : call.args[1][i].val = None
    /\ Matching(All(table), call.args[1]) # <<>>
    /\ result.kind = "value" /\ result.val = <<>>

----------------------------------------------------------------------------
(* The whole program: every operation, with the responses a caller holds *)

\* Response(...), Redirect(...), Error(...) as a caller writes them
DirectCalls ==
    { [op |-> "Response", args |-> <<Str(<<233>>), <<>>, <<>>>>],
      [op |-> "Redirect", args |-> <<<<60>>>>],
      [op |-> "Error", args |-> <<<<38>>, <<404>>>>] }

ApplyCall(c) ==
    IF c.op = "Redirect" THEN RedirectInit(c.args[1])
    ELSE IF c.op = "Error" THEN ErrorInit(c.args[1], c.args[2])
    ELSE ResponseInit(c.args[1], c.args[2], c.args[3])

NewResponse(cap, c) ==
    \E r \in {ApplyCall(c)} :
        /\ call' = c
        /\ result' = Returned(r)
        /\ responses' = Keep(responses, r, cap)
        /\ UNCHANGED <<enable_docs, docs_format, urls, route_docs, middlewares,
                       table, regLog, saved, flow, served>>

Budget == Calls + Len(table) + Len(responses) < MaxOps

AddRouteOne == Budget /\ AddRoute(DocsPath, UserHandler(1), <<60,100>>)
RegisterOne == Budget /\ \E path \in CrudPaths : Register(path)
DocsViewKept == Budget /\ DocsView(MaxResponses)
ListViewKept == Budget /\ \E path \in CrudPaths : ListView(MaxResponses, path)
AddViewKept ==
    /\ Budget
    /\ \E path \in CrudPaths, method \in {Post, <<71,69,84>>},
          form \in { <<[key |-> NameField, val |-> Str(<<60>>)],
                       [key |-> AgeField, val |-> Str(<<60>>)]>>,
                     <<[key |-> NameField, val |-> Str(<<>>)]>> } :
           AddView(MaxResponses, path, method, form)
ModelSaveOne == Budget /\ ModelSave(<<[key |-> NameField, val |-> Str(<<97>>)]>>)
ModelAllCall == Budget /\ ModelAll
ModelFilterOne == Budget /\ ModelFilter(<<[key |-> NameField, val |-> Str(<<97>>)]>>)
NewResponseKept == Budget /\ \E c \in DirectCalls : NewResponse(MaxResponses, c)

Next ==
    \/ AddRouteOne
    \/ RegisterOne
    \/ DocsViewKept
    \/ ListViewKept
    \/ AddViewKept
    \/ ModelSaveOne
    \/ ModelAllCall
    \/ ModelFilterOne
    \/ NewResponseKept

Spec == InitApp /\ [][Next]_vars

----------------------------------------------------------------------------
(* C3 *)

\* C3: a constructed Response keeps its status, body and headers: no step of
\* the program (docs_view, add_route, AutoCRUD.register, list_view, add_view
\* with FormBuilder, the Model operations, constructing another Response)
\* changes a Response that exists, whatever its headers.
C3_ResponsesFixed ==
    [][\A i \in 1..Len(responses) :
           /\ i <= Len(responses')
           /\ responses'[i].status = responses[i].status
           /\ responses'[i].body = responses[i].body
           /\ responses'[i].headers = responses[i].headers]_vars

\* a response with the default headers and a redirect are held, and the
\* view has just stored a row
C3_Witness ==
    /\ Len(responses) = 2
    /\ responses[1].headers = DefaultHeaders
    /\ responses[1].status = 200
    /\ responses[2].status = 302
    /\ call.op = "add_view"
    /\ Len(table) = 1

----------------------------------------------------------------------------
(* The request pipeline of spec.md: router, middleware chain, server loop *)

\* full-string match of a path against a pattern, for patterns made of
\* literal characters, '.' and a star after either
RECURSIVE FullMatch(_, _)
FullMatch(pat, path) ==
    LET fits(c) == pat[1] = 46 \/ pat[1] = c                                 \* '.'
    IN  IF pat = <<>> THEN path = <<>>
        ELSE IF Len(pat) >= 2 /\ pat[2] = 42                                 \* '*'
             THEN \/ FullMatch(Drop(pat, 2), path)
                  \/ path # <<>> /\ fits(path[1]) /\ FullMatch(pat, Drop(path, 1))
        ELSE path # <<>> /\ fits(path[1]) /\ FullMatch(Drop(pat, 1), Drop(path, 1))

\* resolve(path): the positions of the route table whose pattern matches,
\* the first of which wins
Resolve(routes, path) ==
    LET hits == {i \in 1..Len(routes) : FullMatch(routes[i].key, path)}
    IN  IF hits = {} THEN 0 ELSE CHOOSE i \in hits : \A j \in hits : i <= j

\* a middleware either calls its continuation ("pass"), answers itself
\* ("short") or fails ("raise")
MiddlewareKinds == {"pass", "short", "raise"}

\* a variant in which the chain goes on whatever the middleware did
CursorSkipsStop(kind, cursor) == cursor + 1

\* the cursor after middleware i of kind k has run; 0 when the chain stops
NextCursor(kind, cursor) == IF kind = "pass" THEN cursor + 1 ELSE 0

\* what a middleware that does not continue hands back
MiddlewareOutcome(kind) ==
    IF kind = "short"
    THEN Returned(ResponseInit(Str(<<70,111,114,98,105,100,100,101,110>>),   \* 'Forbidden'
                               <<403>>, <<>>))
    ELSE Raised("RuntimeError")

\* the handlers callers write: handler 2 fails, the others answer 'ok'
UserOutcome(h) ==
    IF h.arg = <<2>> THEN Raised("RuntimeError")
    ELSE Returned(ResponseInit(Str(<<111,107>>), <<>>, <<>>))                \* 'ok'

\* handler(ctx): the possible [result, rows]
Outcomes(h, ctx, rows, docs, format) ==
    IF h.kind = "docs_view"
    THEN {[result |-> Returned(ResponseInit(Str(html_doc), <<>>, <<>>)), rows |-> rows] :
             html_doc \in IF format = "markdown" THEN MarkdownOutputs
                          ELSE {DocsHtml(docs)}}
    ELSE IF h.kind = "list_view" THEN {[result |-> ListViewResult(rows), rows |-> rows]}
    ELSE IF h.kind = "add_view"
         THEN {AddViewResult(h.arg \o ListSuffix, ctx.method, ctx.form, rows)}
    ELSE {[result |-> UserOutcome(h), rows |-> rows]}

\* a route miss is a 404 Error response
NotFound == ErrorInit(<<78,111,116,32,70,111,117,110,100>>, <<404>>)         \* 'Not Found'

\* the server loop's boundary: a failure becomes a 500 Error response with
\* the generic message (debug is False after construction)
AtBoundary(out) ==
    IF out.kind = "raise"
    THEN ErrorInit(<<73,110,116,101,114,110,97,108,32,83,101,114,118,101,114,32,
                     69,114,114,111,114>>, <<500>>)                          \* 'Internal Server Error'
    ELSE out.val

----------------------------------------------------------------------------
(* Serving *)

\* registration calls, applied in order to a constructed framework
AddCall(path, func, doc) == [op |-> "add_route", path |-> path, func |-> func, doc |-> doc]
RegCall(path) == [op |-> "register", path |-> path, func |-> None, doc |-> <<>>]

RECURSIVE Configured(_, _)
\* [urls, docs, log] after the calls
Configured(enabled, calls) ==
    IF calls = <<>>
    THEN [urls |-> InitUrls(enabled), docs |-> <<>>,
          log |-> [i \in 1..Len(InitUrls(enabled)) |->
                      [path |-> InitUrls(enabled)[i].key,
                       func |-> InitUrls(enabled)[i].val, by |-> "init"]]]
    ELSE LET c == calls[Len(calls)]
             before == Configured(enabled, SubSeq(calls, 1, Len(calls) - 1))
         IN  IF c.op = "add_route"
             THEN [urls |-> DictSet(before.urls, c.path, c.func),
                   docs |-> AddRouteDocs(before.docs, enabled, c.path, c.doc),
                   log |-> Append(before.log,
                                  [path |-> c.path, func |-> c.func, by |-> "add_route"])]
             ELSE [urls |-> RegisterUrls(before.urls, c.path),
                   docs |-> RegisterDocs(before.docs, enabled, c.path \o ListSuffix,
                                         c.path \o AddSuffix),
                   log |-> before.log \o
                       << [path |-> c.path \o ListSuffix,
                           func |-> ListViewHandler(c.path), by |-> "register"],
                          [path |-> c.path \o AddSuffix,
                           func |-> AddViewHandler(c.path), by |-> "register"] >>]

UnderP == <<47,112,46,42>>                                                   \* '/p.*'
PList == <<47,112,47,108,105,115,116>>                                       \* '/p/list'

\* the applications served
Setups ==
    { << RegCall(<<47,112>>), AddCall(UnderP, UserHandler(1), <<>>) >>,
      << AddCall(UnderP, UserHandler(1), <<>>), AddCall(DocsPath, UserHandler(1), <<>>),
         RegCall(<<47,112>>), AddCall(UnderP, UserHandler(2), <<>>) >>,
      << AddCall(PList, UserHandler(1), <<>>) >> }

InitServe ==
    /\ enable_docs \in BOOLEAN
    /\ docs_format = "html"
    /\ \E calls \in Setups :
           /\ urls = Configured(enable_docs, calls).urls
           /\ route_docs = Configured(enable_docs, calls).docs
           /\ regLog = Configured(enable_docs, calls).log
    /\ middlewares = <<>>
    /\ table = <<>>
    /\ responses = <<>>
    /\ saved = <<>>
    /\ call = NoCall
    /\ result = NoResult
    /\ flow = ConfigFlow
    /\ served = <<>>

\* the requests clients send
ValidForm == <<[key |-> NameField, val |-> Str(<<60>>)],
               [key |-> AgeField, val |-> Str(<<60>>)]>>
Requests ==
    { [path |-> DocsPath, method |-> <<71,69,84>>, form |-> <<>>],
      [path |-> PList, method |-> <<71,69,84>>, form |-> <<>>],
      [path |-> <<47,112,47,97,100,100>>, method |-> Post, form |-> ValidForm],
      [path |-> <<47,112,47,97,100,100>>, method |-> Post,
       form |-> ValidForm \o <<[key |-> SelfName, val |-> Str(<<97>>)]>>],
      [path |-> <<47,120>>, method |-> <<71,69,84>>, form |-> <<>>] }

\* registering a middleware, before run()
Use ==
    /\ flow.pc = "config"
    /\ Len(middlewares) < MaxMiddlewares
    /\ \E kind \in MiddlewareKinds : middlewares' = Append(middlewares, kind)
    /\ UNCHANGED <<enable_docs, docs_format, urls, route_docs, table, responses,
                   regLog, saved, call, result, flow, served>>

\* run(): the server starts to accept
Run ==
    /\ flow.pc = "config"
    /\ flow' = [flow EXCEPT !.pc = "idle"]
    /\ UNCHANGED <<enable_docs, docs_format, urls, route_docs, middlewares, table,
                   responses, regLog, saved, call, result, served>>

\* a connection is accepted and its request parsed into a context
Accept ==
    /\ flow.pc = "idle"
    /\ Len(served) < MaxRequests
    /\ \E req \in Requests :
           flow' = [pc |-> "chain", ctx |-> req, cursor |-> 1, mws |-> <<>>,
                    routed |-> FALSE, invoked |-> <<>>, out |-> NoResult]
    /\ UNCHANGED <<enable_docs, docs_format, urls, route_docs, middlewares, table,
                   responses, regLog, saved, call, result, served>>

\* the chain at cursor i calls middleware i
RunMiddleware ==
    /\ flow.pc = "chain"
    /\ flow.cursor >= 1 /\ flow.cursor <= Len(middlewares)
    /\ LET kind == middlewares[flow.cursor]
           next == NextCursor(kind, flow.cursor)
       IN  flow' = [flow EXCEPT
                       !.mws = Append(@, flow.cursor),
                       !.cursor = next,
                       !.pc = IF next = 0 THEN "send" ELSE "chain",
                       !.out = IF kind = "pass" THEN @ ELSE MiddlewareOutcome(kind)]
    /\ UNCHANGED <<enable_docs, docs_format, urls, route_docs, middlewares, table,
                   responses, regLog, saved, call, result, served>>

\* past the last middleware: the router resolves the path and the handler runs
Dispatch ==
    /\ flow.pc = "chain"
    /\ flow.cursor > Len(middlewares)
    /\ LET at == Resolve(urls, flow.ctx.path)
       IN  IF at = 0
           THEN /\ flow' = [flow EXCEPT !.pc = "send", !.routed = TRUE,
                                        !.out = Returned(NotFound)]
                /\ UNCHANGED <<table, saved>>
           ELSE \E o \in Outcomes(urls[at].val, flow.ctx, table, route_docs, docs_format) :
                    /\ Len(o.rows) <= MaxRows
                    /\ flow' = [flow EXCEPT
                                   !.pc = "send", !.routed = TRUE,
                                   !.invoked = <<[pattern |-> urls[at].key,
                                                  func |-> urls[at].val]>>,
                                   !.out = o.result]
                    /\ table' = o.rows
                    /\ saved' = IF Len(o.rows) > Len(table)
                                THEN Append(saved, ModelInit(flow.ctx.form).val)
                                ELSE saved
    /\ UNCHANGED <<enable_docs, docs_format, urls, route_docs, middlewares,
                   responses, regLog, call, result, served>>

\* the response, or the 500 a failure was turned into, is written and the
\* loop accepts again
Send ==
    /\ flow.pc = "send"
    /\ served' = Append(served,
                        [ctx |-> flow.ctx, mws |-> flow.mws, routed |-> flow.routed,
                         invoked |-> flow.invoked, fault |-> flow.out.kind = "raise",
                         resp |-> AtBoundary(flow.out)])
    /\ flow' = [ConfigFlow EXCEPT !.pc = "idle"]
    /\ UNCHANGED <<enable_docs, docs_format, urls, route_docs, middlewares, table,
                   responses, regLog, saved, call, result>>

NextServe == Use \/ Run \/ Accept \/ RunMiddleware \/ Dispatch \/ Send

SpecServe == InitServe /\ [][NextServe]_vars

----------------------------------------------------------------------------
(* Claims about the pipeline *)

Min(S) == CHOOSE i \in S : \A j \in S : i <= j

\* what the router owes a request for path: nothing invoked and a 404 when
\* no registered pattern matches, else exactly the latest handler of the
\* first-registered pattern that matches
RoutedRight(path, invoked, out) ==
    LET order == FirstOrder(regLog)
        hits == {i \in 1..Len(order) : FullMatch(order[i], path)}
    IN  IF hits = {}
        THEN invoked = <<>> /\ out.kind = "response" /\ out.val.status = 404
        ELSE invoked = <<[pattern |-> order[Min(hits)],
                          func |-> LastHandler(regLog, order[Min(hits)])]>>

\* C5: every request that reaches the router is given to the handler of the
\* first pattern, in registration order, that fully matches its path; when
\* no pattern matches, no handler is invoked and the response sent has
\* status 404.
C5_ResolveFirstMatch ==
    /\ flow.routed => RoutedRight(flow.ctx.path, flow.invoked, flow.out)
    /\ \A n \in 1..Len(served) :
           served[n].routed =>
               RoutedRight(served[n].ctx.path, served[n].invoked, Returned(served[n].resp))

\* a path two registered patterns match went to the first of them, and a
\* path none matches got its 404 with nothing invoked
C5_Witness ==
    /\ Len(served) = 2
    /\ served[1].routed /\ served[1].invoked # <<>>
    /\ Cardinality({i \in 1..Len(urls) : FullMatch(urls[i].key, served[1].ctx.path)}) = 2
    /\ served[1].invoked[1].pattern = urls[1].key
    /\ served[2].routed /\ served[2].invoked = <<>> /\ served[2].resp.status = 404

\* the middlewares a request must have run: 1, 2, ... up to the first that
\* does not call its continuation
ChainPrefix ==
    LET stops == {i \in 1..Len(middlewares) : middlewares[i] # "pass"}
    IN  [i \in 1..(IF stops = {} THEN Len(middlewares) ELSE Min(stops)) |-> i]

ShortCircuits == \E i \in 1..Len(middlewares) : middlewares[i] # "pass"

\* C6: for every request the middlewares run are m1, m2, ... in registration
\* order up to the first that does not call its continuation, and after
\* such a short-circuit no later middleware, router or handler runs.
C6_ChainOrder ==
    /\ \A n \in 1..Len(served) :
           /\ served[n].mws = ChainPrefix
           /\ ShortCircuits => ~served[n].routed /\ served[n].invoked = <<>>
           /\ ~ShortCircuits => served[n].routed
    /\ flow.pc \in {"chain", "send"} =>
           /\ \E k \in 0..Len(ChainPrefix) : flow.mws = SubSeq(ChainPrefix, 1, k)
           /\ flow.routed => flow.mws = ChainPrefix
           /\ ShortCircuits => ~flow.routed /\ flow.invoked = <<>>
           /\ flow.pc = "send" => flow.mws = ChainPrefix

\* two middlewares, the second answers itself: both ran in order, the
\* router did not, and the client got the middleware's response
C6_Witness ==
    /\ middlewares = <<"pass", "short">>
    /\ Len(served) = 2
    /\ served[1].mws = <<1, 2>>
    /\ ~served[1].routed /\ served[1].invoked = <<>>
    /\ served[1].resp.status = 403

\* C7: a request whose handler (or middleware) raised is answered with a
\* 500-status response, and the request after it is served as if the fault
\* had not happened: the loop is back at accept with nothing of the failed
\* request left, and a later request that raises nothing gets the response
\* its own handler or the router produced.
C7_FaultIs500 ==
    /\ \A n \in 1..Len(served) :
           /\ served[n].fault =>
                  /\ served[n].resp.status = 500
                  /\ served[n].resp.headers = DefaultHeaders
           /\ ~served[n].fault /\ served[n].invoked # <<>> =>
                  served[n].resp.status \in {200, 302}
    /\ flow.pc = "idle" => flow = [ConfigFlow EXCEPT !.pc = "idle"]
    /\ flow.pc \in {"config", "idle", "chain", "send"}

\* a handler raised, the client got a 500, and the next request was routed
\* to its handler and answered 200
C7_Witness ==
    /\ Len(served) = 2
    /\ served[1].fault /\ served[1].invoked # <<>> /\ served[1].resp.status = 500
    /\ ~served[2].fault /\ served[2].invoked # <<>> /\ served[2].resp.status = 200
    /\ flow.pc = "idle"

====
